---- MODULE Spec2Model ----
\* Model of gpt_researcher.scraper.Scraper: one batch of links fanned out by
\* run() into one extract_data_from_url task per link, each task inside the
\* worker pool's throttle scope, the outcomes gathered positionally and
\* filtered to those with content.
\*
\* Strings the code inspects (links) are sequences of one-character strings,
\* so that endswith and the substring test are computed, not assumed.
\* One action is one stretch of a coroutine between two suspension points of
\* the asyncio event loop (cooperative scheduling: nothing interleaves
\* inside such a stretch).
EXTENDS Integers, Sequences, FiniteSets, TLC

\* ---------------------------------------------------------------- bounds

\* Largest batch (number of links handed to Scraper).
MaxUrls == 2

\* Largest throttle limit (WorkerPool max_workers).
MaxWorkers == 2

\* ------------------------------------------------------------- constants

\* scraper.py:125  if len(content) < 100
MinContentLen == 100

\* ---------------------------------------------------------------- strings

\* A text of n characters.
Text(n) == [i \in 1..n |-> "x"]

\* Python None where a string is expected: a value no text equals (texts and
\* links are built from one-character strings).
None == <<"None">>

\* scraper.py:202  ".pdf"
PdfSuffix == <<".", "p", "d", "f">>

\* scraper.py:204  "arxiv.org"
ArxivNeedle == <<"a", "r", "x", "i", "v", ".", "o", "r", "g">>

\* str.endswith
endswith(s, suffix) ==
    /\ Len(s) >= Len(suffix)
    /\ SubSeq(s, Len(s) - Len(suffix) + 1, Len(s)) = suffix

\* the substring test  `needle in s`
contains(s, needle) ==
    \E i \in 1..(Len(s) - Len(needle) + 1) :
        SubSeq(s, i, i + Len(needle) - 1) = needle

\* The links of the batches explored: "h.io/a", "h.io/a.pdf", "arxiv.org/a",
\* "arxiv.org/a.pdf".
LinkHtml == <<"h", ".", "i", "o", "/", "a">>
LinkPdf == LinkHtml \o PdfSuffix
LinkArxiv == ArxivNeedle \o <<"/", "a">>
LinkArxivPdf == LinkArxiv \o PdfSuffix
Links == {LinkHtml, LinkPdf, LinkArxiv, LinkArxivPdf}

\* ------------------------------------------------------ strategy selection

\* scraper.py:189-198: the registered strategy classes by key.
SCRAPER_CLASSES ==
    [k \in {"pdf", "arxiv", "bs", "web_base_loader", "browser", "nodriver",
            "tavily_extract", "firecrawl"} |->
        CASE k = "pdf" -> "PyMuPDFScraper"
          [] k = "arxiv" -> "ArxivScraper"
          [] k = "bs" -> "BeautifulSoupScraper"
          [] k = "web_base_loader" -> "WebBaseLoaderScraper"
          [] k = "browser" -> "BrowserScraper"
          [] k = "nodriver" -> "NoDriverScraper"
          [] k = "tavily_extract" -> "TavilyExtract"
          [] k = "firecrawl" -> "FireCrawl"]

\* The default keys a batch is configured with: a registered one, and one
\* with no entry in SCRAPER_CLASSES.
DefaultKeys == {"bs", "scraping_bee"}

\* Variant: the arxiv.org rule tried before the .pdf rule.
scraper_key_arxiv_first(link, default) ==
    IF contains(link, ArxivNeedle) THEN "arxiv"
    ELSE IF endswith(link, PdfSuffix) THEN "pdf"
    ELSE default

\* Variant: the arxiv.org rule left out.
scraper_key_no_arxiv(link, default) ==
    IF endswith(link, PdfSuffix) THEN "pdf" ELSE default

\* scraper.py:200-207: the key a link resolves to under a default key.
scraper_key(link, default) ==
    IF endswith(link, PdfSuffix) THEN "pdf"
    ELSE IF contains(link, ArxivNeedle) THEN "arxiv"
    ELSE default

\* Variant: an unregistered key falls back to the BeautifulSoup strategy
\* instead of raising.
get_scraper_fallback(link, default) ==
    LET key == scraper_key(link, default) IN
    [raised |-> FALSE,
     value |-> IF key \in DOMAIN SCRAPER_CLASSES
               THEN SCRAPER_CLASSES[key] ELSE SCRAPER_CLASSES["bs"]]

\* scraper.py:172-213: the class, or the raised Exception("Scraper not found.").
get_scraper(link, default) ==
    LET key == scraper_key(link, default) IN
    IF key \in DOMAIN SCRAPER_CLASSES
    THEN [raised |-> FALSE, value |-> SCRAPER_CLASSES[key]]
    ELSE [raised |-> TRUE, value |-> "Exception"]

\* ------------------------------------------------------------------ state

VARIABLES
    urls,             \* Scraper.urls: the batch, in submission order
    scraper,          \* Scraper.scraper: the default strategy key
    job_id,           \* Scraper.job_id: None, or the job the pages belong to
    limit,            \* the throttle limit C of the worker pool
    pc,               \* per task: "waiting", "scraping", "done", "raised"
    slots,            \* throttle slots held
    scraper_name,     \* per task: class of the strategy constructed, or "none"
    got,              \* per task: what its strategy did (construction, scrape)
    status,           \* per task: the return statement taken, or "none"
    error_log,        \* per task: str(e) logged by the task's except clause
    exc,              \* per task: the exception that left the task, or "none"
    contents,         \* gather's result list, filled by position
    db_calls,         \* per task: insert_scraped_page calls issued
    pages,            \* rows stored by the sink
    cancel_requested, \* the caller cancelled run() (an external deadline)
    run_state,        \* "running", "returned", "raised", "cancelled"
    res,              \* the list run() returned
    overtook,         \* some task finished before an earlier-submitted one
    async_classes,    \* the strategy classes that define scrape_async
    how               \* per task: how its strategy was invoked, or "none"

config == <<urls, scraper, job_id, limit, async_classes>>

\* ScraperAPI.scrape_url (scraperapi.py)
VARIABLES
    api_num_retries,  \* self.num_retries
    api_pc,           \* "loop", "after_loop", "returned", "raised"
    api_i,            \* iterations of the for loop begun
    api_response,     \* the local `response`: unbound, None, or a response
    api_requests,     \* what each request issued so far ended in, in order
    api_return,       \* the string returned
    api_exc           \* the exception scrape_url raised, or "none"

\* ScrapingBeeScraper.scrape / ZenRowsScraper.scrape
VARIABLES
    bee_adapter,       \* the class: "ScrapingBeeScraper" or "ZenRowsScraper"
    bee_link,          \* self.link
    bee_pc,            \* "start", "returned", "raised"
    bee_premium_proxy, \* the premium_proxy parameter sent, or "unsent"
    bee_client,        \* what client.get did
    bee_parse,         \* what parsing the response did
    bee_return,        \* the value scrape returned
    bee_exc,           \* the exception scrape raised, or "none"
    bee_unpacked       \* the caller's three-way unpacking of bee_return

\* The adapters' text post-processing, applied and applied again
VARIABLES
    norm_text,        \* raw_content, the text parse_page returned
    norm_pc,          \* "raw", "once", "twice"
    norm_once,        \* text_content
    norm_twice        \* text_content of text_content

\* DatabaseManager and the tables behind it (db_utils.py)
VARIABLES
    db_jobs,          \* rows of table jobs
    db_pages,         \* rows of table pages
    db_logs,          \* rows of table logs
    db_uuid,          \* uuid4 values handed out so far
    db_clock,         \* datetime.utcnow(), in calls made
    db_call,          \* the last call made and its arguments
    db_prev_call,     \* the call before it
    db_before         \* the tables as they were before the last call

\* parse_reddit_page of the two adapters
VARIABLES
    red_elements,      \* the texts of the soup's usertext-body elements, in document order
    red_pc,            \* "collect", "format", "returned"
    red_i,             \* elements the first loop has visited
    red_comment_array, \* comment_array
    red_index,         \* comments the second loop has formatted
    red_text_content   \* text_content

\* DatabaseManager: the class attributes and the constructions made
VARIABLES
    dbm_instance,      \* DatabaseManager._instance: 0 for None, or the object's number
    dbm_initialized,   \* _initialized as the instance reads it
    dbm_objects,       \* objects object.__new__ has allocated
    dbm_clients,       \* clients create_client has returned
    dbm_attempts,      \* times __init__ went into its initialization
    dbm_results        \* what each construction gave its caller, in order

orch_vars == <<urls, scraper, job_id, limit, pc, slots, scraper_name, got, status,
               error_log, exc, contents, db_calls, pages, cancel_requested,
               run_state, res, overtook, async_classes, how>>

api_vars == <<api_num_retries, api_pc, api_i, api_response, api_requests,
              api_return, api_exc>>

bee_vars == <<bee_adapter, bee_link, bee_pc, bee_premium_proxy, bee_client,
              bee_parse, bee_return, bee_exc, bee_unpacked>>

norm_vars == <<norm_text, norm_pc, norm_once, norm_twice>>

db_vars == <<db_jobs, db_pages, db_logs, db_uuid, db_clock, db_call,
             db_prev_call, db_before>>

red_vars == <<red_elements, red_pc, red_i, red_comment_array, red_index,
              red_text_content>>

dbm_vars == <<dbm_instance, dbm_initialized, dbm_objects, dbm_clients,
              dbm_attempts, dbm_results>>

vars == <<orch_vars, api_vars, bee_vars, norm_vars, db_vars, red_vars, dbm_vars>>

\* Each specification below runs one component; the others are not in use.
orch_idle ==
    /\ urls = <<>> /\ scraper = "" /\ job_id = <<>> /\ limit = 0
    /\ pc = <<>> /\ slots = 0 /\ scraper_name = <<>> /\ got = <<>>
    /\ status = <<>> /\ error_log = <<>> /\ exc = <<>> /\ contents = <<>>
    /\ db_calls = <<>> /\ pages = {} /\ cancel_requested = FALSE
    /\ run_state = "idle" /\ res = <<>> /\ overtook = FALSE
    /\ async_classes = {} /\ how = <<>>

api_idle ==
    /\ api_num_retries = 0 /\ api_pc = "idle" /\ api_i = 0
    /\ api_response = <<>> /\ api_requests = <<>> /\ api_return = <<>>
    /\ api_exc = "none"

bee_idle ==
    /\ bee_adapter = "" /\ bee_link = <<>> /\ bee_pc = "idle"
    /\ bee_premium_proxy = "unsent" /\ bee_client = "" /\ bee_parse = ""
    /\ bee_return = <<>> /\ bee_exc = "none" /\ bee_unpacked = "pending"

norm_idle ==
    /\ norm_text = <<>> /\ norm_pc = "idle" /\ norm_once = <<>>
    /\ norm_twice = <<>>

db_idle ==
    /\ db_jobs = {} /\ db_pages = {} /\ db_logs = {} /\ db_uuid = 0
    /\ db_clock = 0 /\ db_call = <<>> /\ db_prev_call = <<>>
    /\ db_before = <<>>

red_idle ==
    /\ red_elements = <<>> /\ red_pc = "idle" /\ red_i = 0
    /\ red_comment_array = <<>> /\ red_index = 0 /\ red_text_content = <<>>

dbm_idle ==
    /\ dbm_instance = 0 /\ dbm_initialized = FALSE /\ dbm_objects = 0
    /\ dbm_clients = 0 /\ dbm_attempts = 0 /\ dbm_results = <<>>

Tasks == 1..Len(urls)

\* A position of gather's result list whose task has not returned.
Pending ==
    [url |-> <<>>, raw_content |-> None, image_urls |-> <<>>, title |-> "pending"]

\* What a strategy has done so far: nothing yet.
NotRun == [at |-> "none", raised |-> FALSE, exc |-> "", value |-> <<>>]

\* --------------------------------------------------- strategy behaviours

\* Construction of the strategy object (scraper.py:107): it succeeds, or
\* raises (a missing credential, scraping_bee.py:25).
CtorResults ==
    { [at |-> "construct", raised |-> FALSE, exc |-> "", value |-> <<>>],
      [at |-> "construct", raised |-> TRUE, exc |-> "Exception", value |-> <<>>] }

\* A (content, image_urls, title) triple as a strategy returns it.
Triple(content, image_urls, title) ==
    [at |-> "scrape", raised |-> FALSE, exc |-> "",
     value |-> <<content, image_urls, title>>]

\* What scrape / scrape_async can do: return a triple whose text is long
\* enough, one character short, or empty; return a bare string instead of
\* a triple (scraping_bee.py:68,71 return text, not a triple); or raise.
ScrapeResults ==
    { Triple(Text(MinContentLen), <<"i.png">>, "T"),
      Triple(Text(MinContentLen - 1), <<"i.png">>, "T"),
      Triple(Text(0), <<>>, ""),
      [at |-> "scrape", raised |-> FALSE, exc |-> "", value |-> Text(0)],
      [at |-> "scrape", raised |-> TRUE, exc |-> "Exception", value |-> <<>>] }

\* The sink's insert_scraped_page returns the row or raises (db_utils.py:163-183).
DbResults == {"stored", "raised"}

\* ------------------------------------------------------------- throttle

\* WorkerPool.throttle(): a slot is free.
throttle_free(held, c) == held < c

\* WorkerPool.throttle(): entering the scope takes a slot.
throttle_acquire(held) == held + 1

\* WorkerPool.throttle(): leaving the scope, on any path, gives it back.
throttle_release(held) == held - 1

\* ------------------------------------------------- extract_data_from_url

\* Variant: the body entered without waiting for a slot.
enter_throttle_unguarded == TRUE

\* scraper.py:104  async with self.worker_pool.throttle(): the task goes on
\* into the scope only once the throttle grants it a slot.
enter_throttle == throttle_free(slots, limit)

\* Variant: the scope is left with the slot still held.
scope_exit_kept(held, path) == held

\* Variant: acquire and release written by hand around the body, the
\* release skipped when an exception passes through.
scope_exit_leaky(held, path) ==
    IF path = "raise" THEN held ELSE throttle_release(held)

\* scraper.py:104-170: every return and every exception of the body leaves
\* through the async-with, whose exit releases the slot. path is "return",
\* "except" (the except clause returned) or "raise" (an exception went on).
scope_exit(held, path) == throttle_release(held)

\* Variant: the gate off by one.
too_short_off_by_one(content) == Len(content) < MinContentLen - 1

\* scraper.py:125  if len(content) < 100
too_short(content) == Len(content) < MinContentLen

\* Variant: except ValueError.
caught_value_error_only(e) == e = "ValueError"

\* scraper.py:168  except Exception: the classes it catches.
\* asyncio.CancelledError derives from BaseException and is not among them.
caught(e) == e \in {"Exception", "ValueError", "TypeError"}

\* variant of rejected: the title is blanked as on the error path
rejected_blank_title(link, title) ==
    [url |-> link, raw_content |-> None, image_urls |-> <<>>, title |-> ""]

\* scraper.py:127-132
rejected(link, title) ==
    [url |-> link, raw_content |-> None, image_urls |-> <<>>, title |-> title]

\* scraper.py:161-166
accepted(link, content, image_urls, title) ==
    [url |-> link, raw_content |-> content, image_urls |-> image_urls,
     title |-> title]

\* scraper.py:170
failed(link) ==
    [url |-> link, raw_content |-> None, image_urls |-> <<>>, title |-> ""]

\* Variant: results collected as the children complete (as_completed).
gather_store_as_completed(list, t, outcome) ==
    LET k == CHOOSE i \in DOMAIN list :
                 /\ list[i].title = "pending"
                 /\ \A j \in DOMAIN list : list[j].title = "pending" => i <= j
    IN [list EXCEPT ![k] = outcome]

\* scraper.py:60-62: gather stores a child's result at the child's position.
gather_store(list, t, outcome) == [list EXCEPT ![t] = outcome]

\* Variant: a task that fails takes its unfinished siblings down with it
\* (fail-fast, as a task group does).
task_error_fail_fast(t, e, msg) ==
    /\ pc' = [u \in Tasks |->
                 IF u = t THEN "done"
                 ELSE IF pc[u] \in {"waiting", "scraping"} THEN "raised"
                 ELSE pc[u]]
    /\ exc' = [u \in Tasks |->
                 IF u # t /\ pc[u] \in {"waiting", "scraping"}
                 THEN "CancelledError" ELSE exc[u]]
    /\ status' = [status EXCEPT ![t] = "Failed"]
    /\ error_log' = [error_log EXCEPT ![t] = msg]
    /\ contents' = [contents EXCEPT ![t] = failed(urls[t])]

\* scraper.py:168-170 and the exit of the async-with: exception e reaches the
\* task's except clause; msg is str(e).
task_error(t, e, msg) ==
    IF caught(e)
    THEN /\ pc' = [pc EXCEPT ![t] = "done"]
         /\ status' = [status EXCEPT ![t] = "Failed"]
         /\ error_log' = [error_log EXCEPT ![t] = msg]
         /\ contents' = gather_store(contents, t, failed(urls[t]))
         /\ exc' = exc
    ELSE /\ pc' = [pc EXCEPT ![t] = "raised"]
         /\ exc' = [exc EXCEPT ![t] = e]
         /\ UNCHANGED <<status, error_log, contents>>

\* The path on which task_error leaves the throttle scope.
error_path(e) == IF caught(e) THEN "except" ELSE "raise"

\* A task that ends now ends before an earlier-submitted one.
overtakes(t) == \E u \in Tasks : u < t /\ pc[u] \in {"waiting", "scraping"}

\* scraper.py:114  hasattr(scraper, "scrape_async")
has_scrape_async(cls) == cls \in async_classes

\* variant of dispatch: the blocking form is called where it stands
dispatch_inline(cls) == IF has_scrape_async(cls) THEN "awaited" ELSE "inline"

\* scraper.py:114-123: scrape_async is awaited; scrape is handed to
\* run_in_executor(self.worker_pool.executor, ...) and its future awaited.
dispatch(cls) == IF has_scrape_async(cls) THEN "awaited" ELSE "executor"

\* Task t's strategy is running on the scheduling thread itself: until it
\* returns, the event loop runs nothing else.
holds_loop(t) == pc[t] = "scraping" /\ how[t] = "inline"

\* The event loop can run a step of task t: no other task holds it.
loop_free(t) == \A u \in Tasks \ {t} : ~holds_loop(u)

\* scraper.py:104-123, up to the first suspension inside the try: enter the
\* throttle scope, select the strategy, construct it, start its scrape.
extract_start(t) ==
    /\ pc[t] = "waiting"
    /\ ~cancel_requested
    /\ loop_free(t)
    /\ enter_throttle
    /\ \E ctor \in CtorResults :
        LET cls == get_scraper(urls[t], scraper) IN
        IF cls.raised
        THEN /\ task_error(t, cls.value, "Scraper not found.")
             /\ slots' = scope_exit(throttle_acquire(slots), error_path(cls.value))
             /\ overtook' = (overtook \/ overtakes(t))
             /\ UNCHANGED <<scraper_name, got, how>>
        ELSE IF ctor.raised
        THEN /\ task_error(t, ctor.exc, "API key not found.")
             /\ slots' = scope_exit(throttle_acquire(slots), error_path(ctor.exc))
             /\ overtook' = (overtook \/ overtakes(t))
             /\ got' = [got EXCEPT ![t] = ctor]
             /\ UNCHANGED <<scraper_name, how>>
        ELSE /\ pc' = [pc EXCEPT ![t] = "scraping"]
             /\ slots' = throttle_acquire(slots)
             /\ scraper_name' = [scraper_name EXCEPT ![t] = cls.value]
             /\ how' = [how EXCEPT ![t] = dispatch(cls.value)]
             /\ got' = [got EXCEPT ![t] = ctor]
             /\ UNCHANGED <<status, error_log, exc, contents, overtook>>
    /\ UNCHANGED <<config, db_calls, pages, cancel_requested, run_state, res>>

\* variant of page_row: the length recorded is one too many
page_row_length_off(t, content, image_urls, title) ==
    [id |-> t, job_id |-> job_id, url |-> urls[t], title |-> title,
     content |-> content,
     metadata |-> [scraper |-> scraper_name[t], image_urls |-> image_urls,
                   content_length |-> Len(content) + 1]]

\* scraper.py:146-157: the row handed to insert_scraped_page (db_utils.py:146-154;
\* the task's position stands for the fresh uuid of the row).
page_row(t, content, image_urls, title) ==
    [id |-> t, job_id |-> job_id, url |-> urls[t], title |-> title,
     content |-> content,
     metadata |-> [scraper |-> scraper_name[t], image_urls |-> image_urls,
                   content_length |-> Len(content)]]

\* variant of sink_caught: the write is not guarded
sink_caught_nothing(e) == FALSE

\* scraper.py:158  except Exception around insert_scraped_page: the
\* classes it catches (insert_scraped_page raises Exception, db_utils.py:172-183)
sink_caught(e) == e \in {"Exception", "ValueError", "TypeError"}

\* scraper.py:113-170, from the resumption after the scrape to the return:
\* unpack the result, gate on the length, write the page, return; the
\* throttle scope is left on every one of these paths.
extract_resume(t) ==
    /\ pc[t] = "scraping"
    /\ ~cancel_requested
    /\ loop_free(t)
    /\ \E r \in ScrapeResults, db \in DbResults :
        /\ got' = [got EXCEPT ![t] = r]
        /\ IF r.raised
           THEN /\ task_error(t, r.exc, "scrape failed")
                /\ slots' = scope_exit(slots, error_path(r.exc))
                /\ UNCHANGED <<db_calls, pages>>
           ELSE IF Len(r.value) # 3
           THEN /\ task_error(t, "ValueError", "not enough values to unpack")
                /\ slots' = scope_exit(slots, error_path("ValueError"))
                /\ UNCHANGED <<db_calls, pages>>
           ELSE LET content == r.value[1]
                    image_urls == r.value[2]
                    title == r.value[3]
                IN
                IF too_short(content)
                THEN /\ pc' = [pc EXCEPT ![t] = "done"]
                     /\ slots' = scope_exit(slots, "return")
                     /\ status' = [status EXCEPT ![t] = "Rejected"]
                     /\ contents' = gather_store(contents, t, rejected(urls[t], title))
                     /\ UNCHANGED <<error_log, exc, db_calls, pages>>
                ELSE IF job_id # None /\ db = "raised" /\ ~sink_caught("Exception")
                THEN /\ task_error(t, "Exception", "sink failed")
                     /\ slots' = scope_exit(slots, error_path("Exception"))
                     /\ db_calls' = [db_calls EXCEPT ![t] = @ + 1]
                     /\ pages' = pages
                ELSE /\ pc' = [pc EXCEPT ![t] = "done"]
                     /\ slots' = scope_exit(slots, "return")
                     /\ status' = [status EXCEPT ![t] = "Accepted"]
                     /\ contents' = gather_store(contents, t,
                                       accepted(urls[t], content, image_urls, title))
                     /\ IF job_id # None
                        THEN /\ db_calls' = [db_calls EXCEPT ![t] = @ + 1]
                             /\ pages' = IF db = "stored"
                                         THEN pages \cup {page_row(t, content, image_urls, title)}
                                         ELSE pages
                        ELSE UNCHANGED <<db_calls, pages>>
                     /\ UNCHANGED <<error_log, exc>>
    /\ overtook' = (overtook \/ overtakes(t))
    /\ UNCHANGED <<config, scraper_name, cancel_requested, run_state, res, how>>

\* The caller's deadline elapses while run() is awaiting gather: gather
\* cancels every child that has not finished.
cancel ==
    /\ run_state = "running"
    /\ ~cancel_requested
    /\ \A t \in Tasks : loop_free(t) /\ ~holds_loop(t)
    /\ \E t \in Tasks : pc[t] \in {"waiting", "scraping"}
    /\ cancel_requested' = TRUE
    /\ UNCHANGED <<config, pc, slots, scraper_name, got, status, error_log, exc,
                   contents, db_calls, pages, run_state, res, overtook, how>>

\* CancelledError is thrown into a child at the await it is suspended in:
\* waiting for a slot (scraper.py:104, no slot held yet), or awaiting its
\* strategy (scraper.py:115, 121) inside the try and the throttle scope.
task_cancel(t) ==
    /\ cancel_requested
    /\ pc[t] \in {"waiting", "scraping"}
    /\ loop_free(t) /\ ~holds_loop(t)
    /\ IF pc[t] = "waiting"
       THEN /\ pc' = [pc EXCEPT ![t] = "raised"]
            /\ exc' = [exc EXCEPT ![t] = "CancelledError"]
            /\ UNCHANGED <<status, error_log, contents, slots>>
       ELSE /\ task_error(t, "CancelledError", "")
            /\ slots' = scope_exit(slots, error_path("CancelledError"))
    /\ UNCHANGED <<config, scraper_name, got, db_calls, pages, cancel_requested,
                   run_state, res, overtook, how>>

\* Variant: no filter.
with_content_unfiltered(list) == list

\* scraper.py:64: keep the outcomes that carry content.
with_content(list) == SelectSeq(list, LAMBDA content : content.raw_content # None)

\* scraper.py:60-65: gather completes when every child has returned, or
\* raises the first exception a child raised; run then filters and returns.
run ==
    /\ run_state = "running"
    /\ \A t \in Tasks : ~holds_loop(t)
    /\ \/ \A t \in Tasks : pc[t] = "done"
       \/ \E t \in Tasks : pc[t] = "raised"
    /\ IF \E t \in Tasks : pc[t] = "raised"
       THEN /\ run_state' = IF cancel_requested THEN "cancelled" ELSE "raised"
            /\ res' = res
       ELSE /\ run_state' = "returned"
            /\ res' = with_content(contents)
    /\ UNCHANGED <<config, pc, slots, scraper_name, got, status, error_log, exc,
                   contents, db_calls, pages, cancel_requested, overtook, how>>

\* The state after Scraper(urls, user_agent, scraper, worker_pool, job_id)
\* (scraper.py:30-54) and the call of run(), before any task has run.
Init ==
    /\ \E n \in 0..MaxUrls : urls \in [1..n -> Links]
    /\ scraper \in DefaultKeys
    /\ job_id \in {None, <<"j", "1">>}
    /\ limit \in 1..MaxWorkers
    /\ pc = [t \in Tasks |-> "waiting"]
    /\ slots = 0
    /\ scraper_name = [t \in Tasks |-> "none"]
    /\ got = [t \in Tasks |-> NotRun]
    /\ status = [t \in Tasks |-> "none"]
    /\ error_log = [t \in Tasks |-> ""]
    /\ exc = [t \in Tasks |-> "none"]
    /\ contents = [t \in Tasks |-> Pending]
    /\ db_calls = [t \in Tasks |-> 0]
    /\ pages = {}
    /\ cancel_requested = FALSE
    /\ run_state = "running"
    /\ res = <<>>
    /\ overtook = FALSE
    /\ async_classes = {}
    /\ how = [t \in Tasks |-> "none"]
    /\ api_idle /\ bee_idle /\ norm_idle /\ db_idle /\ red_idle /\ dbm_idle

Next ==
    \/ \E t \in Tasks : extract_start(t) /\ UNCHANGED <<api_vars, bee_vars, norm_vars, db_vars, red_vars, dbm_vars>>
    \/ \E t \in Tasks : extract_resume(t) /\ UNCHANGED <<api_vars, bee_vars, norm_vars, db_vars, red_vars, dbm_vars>>
    \/ cancel /\ UNCHANGED <<api_vars, bee_vars, norm_vars, db_vars, red_vars, dbm_vars>>
    \/ \E t \in Tasks : task_cancel(t) /\ UNCHANGED <<api_vars, bee_vars, norm_vars, db_vars, red_vars, dbm_vars>>
    \/ run /\ UNCHANGED <<api_vars, bee_vars, norm_vars, db_vars, red_vars, dbm_vars>>

Spec == Init /\ [][Next]_vars

\* ------------------------------------------------------------ properties

\* The tasks inside the throttle scope: those suspended on their strategy.
InScope == {t \in Tasks : pc[t] = "scraping"}

\* The task has left extract_data_from_url, by return or by exception.
Finished(t) == pc[t] \in {"done", "raised"}

\* The links of the batch by what they look like.
EndsInPdf(t) == urls[t] \in {LinkPdf, LinkArxivPdf}
MentionsArxiv(t) == urls[t] \in {LinkArxiv, LinkArxivPdf}
NeitherRule(t) == urls[t] = LinkHtml

\* The batch's default key has a registered strategy.
DefaultRegistered == scraper = "bs"

\* The dict a failed task returns.
FailedOutcome(t) ==
    [url |-> urls[t], raw_content |-> None, image_urls |-> <<>>, title |-> ""]

\* An error was raised inside task t: by the selection, by the construction,
\* by the scrape, or by unpacking what the scrape returned.
SelectionError(t) ==
    NeitherRule(t) /\ ~DefaultRegistered /\ pc[t] \in {"scraping", "done"}
ConstructionError(t) == got[t].at = "construct" /\ got[t].raised
ScrapeError(t) == got[t].at = "scrape" /\ got[t].raised
UnpackError(t) == got[t].at = "scrape" /\ ~got[t].raised /\ Len(got[t].value) # 3
ErrorInTask(t) ==
    SelectionError(t) \/ ConstructionError(t) \/ ScrapeError(t) \/ UnpackError(t)

\* C1: an error raised inside a task (selection, construction, scrape,
\* unpacking) ends the task with the Failed outcome (no content, no images,
\* empty title); the only exception that ever leaves a task is the
\* cancellation the caller asked for, and run() never raises for a task's error.
C1_ErrorsContained ==
    /\ \A t \in Tasks :
        /\ exc[t] \in {"none", "CancelledError"}
        /\ pc[t] = "raised" => cancel_requested
        /\ ErrorInTask(t) =>
            /\ pc[t] = "done"
            /\ status[t] = "Failed"
            /\ contents[t] = FailedOutcome(t)
    /\ run_state # "raised"
    /\ run_state = "cancelled" => cancel_requested

\* C1 witness: run() returned a batch in which one task's scrape raised and
\* another task was accepted.
C1_Witness ==
    /\ run_state = "returned"
    /\ \E t, u \in Tasks :
        /\ ScrapeError(t) /\ status[t] = "Failed"
        /\ status[u] = "Accepted"

\* C2: at most `limit` tasks are inside the throttle scope, and the slot
\* counter never exceeds the limit.
C2_AtMostLimitInScope ==
    /\ Cardinality(InScope) <= limit
    /\ slots <= limit

\* C2 witness: more links than slots, every slot taken, a task kept waiting.
C2_Witness ==
    /\ Len(urls) > limit
    /\ Cardinality(InScope) = limit
    /\ \E t \in Tasks : pc[t] = "waiting"

\* C3: the slots held are exactly those of the tasks still inside the scope,
\* so a task that left on any path gave its slot back; once every task has
\* left, no slot is held.
C3_SlotsReleased ==
    /\ slots = Cardinality(InScope)
    /\ (\A t \in Tasks : Finished(t)) => slots = 0

\* C3 witness: every task has left, one of them cancelled while its strategy
\* was in flight, another by a return; no slot is held.
C3_Witness ==
    /\ \A t \in Tasks : Finished(t)
    /\ \E t, u \in Tasks :
        /\ exc[t] = "CancelledError" /\ scraper_name[t] # "none"
        /\ pc[u] = "done" /\ scraper_name[u] # "none"
    /\ slots = 0

\* The tasks whose outcome is Accepted.
AcceptedTasks == {t \in Tasks : status[t] = "Accepted"}

\* C4 as stated: run() returns N outcomes, one per submitted link, in order.
C4_Original ==
    run_state = "returned" =>
        /\ Len(res) = Len(urls)
        /\ \A t \in Tasks : res[t].url = urls[t]

\* C4 amended: the tasks of run() produce N outcomes, one per submitted link
\* and in submission order (the gathered list), and run() returns only those
\* of them that are Accepted: as many elements as there are accepted tasks.
C4_GathersAllReturnsAccepted ==
    run_state = "returned" =>
        /\ Len(contents) = Len(urls)
        /\ \A t \in Tasks :
            /\ contents[t] # Pending
            /\ contents[t].url = urls[t]
            /\ status[t] \in {"Accepted", "Rejected", "Failed"}
        /\ Len(res) = Cardinality(AcceptedTasks)
        /\ Len(res) <= Len(urls)

\* C4 witness: run() returned fewer outcomes than links were submitted.
C4_Witness ==
    /\ run_state = "returned"
    /\ Len(res) >= 1
    /\ Len(res) < Len(urls)

\* The position of accepted task t among the accepted tasks.
rank(t) == Cardinality({u \in AcceptedTasks : u <= t})

\* C5: what run() returns is the accepted outcomes and nothing else, in
\* submission order, whatever the order in which the tasks completed.
C5_AcceptedInSubmissionOrder ==
    run_state = "returned" =>
        /\ Len(res) = Cardinality(AcceptedTasks)
        /\ \A t \in AcceptedTasks :
            /\ res[rank(t)].url = urls[t]
            /\ res[rank(t)].raw_content = got[t].value[1]
            /\ res[rank(t)].image_urls = got[t].value[2]
            /\ res[rank(t)].title = got[t].value[3]
        /\ \A t, u \in AcceptedTasks : t < u => rank(t) < rank(u)

\* C5 witness: two different links, both accepted, the later-submitted one
\* completed first, and run() returned.
C5_Witness ==
    /\ run_state = "returned"
    /\ overtook
    /\ Len(res) = 2
    /\ res[1].url # res[2].url

\* C6: an Accepted outcome carries content of at least 100 characters, a
\* Rejected or Failed one carries none; every element run() returns has
\* content of at least 100 characters.
C6_ContentInvariant ==
    /\ \A t \in Tasks :
        /\ status[t] = "Accepted" =>
            /\ contents[t].raw_content # None
            /\ Len(contents[t].raw_content) >= 100
        /\ status[t] \in {"Rejected", "Failed"} =>
            contents[t].raw_content = None
    /\ \A i \in 1..Len(res) :
        /\ res[i].raw_content # None
        /\ Len(res[i].raw_content) >= 100

\* C6 witness: run() returned; one task was accepted with exactly 100
\* characters, another rejected with 99.
C6_Witness ==
    /\ run_state = "returned"
    /\ \E t, u \in Tasks :
        /\ status[t] = "Accepted" /\ Len(contents[t].raw_content) = 100
        /\ status[u] = "Rejected" /\ Len(got[u].value[1]) = 99

\* The strategy of task t returned a triple.
ReturnedTriple(t) ==
    got[t].at = "scrape" /\ ~got[t].raised /\ Len(got[t].value) = 3

\* C7: the outcome of a finished task is decided by its own link, the batch's
\* default key and what its own strategy did, and by nothing a sibling did:
\* so two runs of a batch that differ in one target's strategy agree on
\* every other target. No task is cancelled unless the caller cancelled the
\* batch, and however its siblings ended, a task that has not finished can
\* take its next step.
C7_TasksIndependent ==
    \A t \in Tasks :
        /\ pc[t] = "done" =>
            IF ErrorInTask(t)
            THEN status[t] = "Failed" /\ contents[t] = FailedOutcome(t)
            ELSE /\ ReturnedTriple(t)
                 /\ IF Len(got[t].value[1]) >= 100
                    THEN /\ status[t] = "Accepted"
                         /\ contents[t] =
                              [url |-> urls[t], raw_content |-> got[t].value[1],
                               image_urls |-> got[t].value[2],
                               title |-> got[t].value[3]]
                    ELSE /\ status[t] = "Rejected"
                         /\ contents[t] =
                              [url |-> urls[t], raw_content |-> None,
                               image_urls |-> <<>>, title |-> got[t].value[3]]
        /\ pc[t] = "raised" => cancel_requested
        /\ (/\ ~cancel_requested
            /\ pc[t] = "waiting"
            /\ \A u \in Tasks \ {t} : Finished(u)) => ENABLED extract_start(t)
        /\ (~cancel_requested /\ pc[t] = "scraping") => ENABLED extract_resume(t)

\* C7 witness: run() returned a batch holding the same link twice, once
\* rejected and once accepted.
C7_Witness ==
    /\ run_state = "returned"
    /\ \E t, u \in Tasks :
        /\ urls[t] = urls[u]
        /\ status[t] = "Rejected"
        /\ status[u] = "Accepted"

\* C8: with a default key that has no registered strategy, every task whose
\* link falls to the default key fails with "Scraper not found." before any
\* strategy is built; run() does not raise; the tasks whose links resolve to
\* pdf or arxiv are run and end as their own strategy's result decides.
C8_UnregisteredDefault ==
    ~DefaultRegistered =>
        /\ \A t \in Tasks : (NeitherRule(t) /\ pc[t] \notin {"waiting", "raised"}) =>
            /\ pc[t] = "done"
            /\ status[t] = "Failed"
            /\ error_log[t] = "Scraper not found."
            /\ scraper_name[t] = "none"
            /\ got[t] = NotRun
        /\ \A t \in Tasks : ~NeitherRule(t) =>
            /\ error_log[t] # "Scraper not found."
            /\ pc[t] \in {"scraping", "done"} => got[t].at # "none"
            /\ (pc[t] = "done" /\ ReturnedTriple(t)) =>
                status[t] = IF Len(got[t].value[1]) >= 100
                            THEN "Accepted" ELSE "Rejected"
        /\ run_state # "raised"

\* C8 witness: default key unregistered, run() returned, a default-key link
\* failed and a .pdf link of the same batch was accepted.
C8_Witness ==
    /\ ~DefaultRegistered
    /\ run_state = "returned"
    /\ \E t, u \in Tasks :
        /\ NeitherRule(t) /\ status[t] = "Failed"
        /\ EndsInPdf(u) /\ status[u] = "Accepted"

\* C9: a link that ends in .pdf gets the pdf strategy under every default
\* key and never fails for a missing strategy; the default key's strategy
\* is used only for a link that neither ends in .pdf nor contains
\* arxiv.org; equal links of a batch get the same strategy.
C9_PdfFirstDefaultLast ==
    \A t \in Tasks :
        /\ (EndsInPdf(t) /\ scraper_name[t] # "none") =>
            scraper_name[t] = "PyMuPDFScraper"
        /\ EndsInPdf(t) => error_log[t] # "Scraper not found."
        /\ scraper_name[t] = "BeautifulSoupScraper" =>
            (NeitherRule(t) /\ scraper = "bs")
        /\ (NeitherRule(t) /\ scraper_name[t] # "none") =>
            scraper_name[t] = "BeautifulSoupScraper"
        /\ \A u \in Tasks :
            (urls[t] = urls[u] /\ scraper_name[t] # "none" /\ scraper_name[u] # "none")
                => scraper_name[t] = scraper_name[u]

\* C9 witness: under the unregistered default key a .pdf link got the pdf
\* strategy and was accepted.
C9_Witness ==
    /\ ~DefaultRegistered
    /\ \E t \in Tasks :
        /\ urls[t] = LinkPdf
        /\ scraper_name[t] = "PyMuPDFScraper"
        /\ status[t] = "Accepted"

\* C10 as stated: a link that contains arxiv.org gets the arxiv strategy,
\* also when it ends in .pdf.
C10_Original ==
    \A t \in Tasks :
        (MentionsArxiv(t) /\ scraper_name[t] # "none") =>
            scraper_name[t] = "ArxivScraper"

\* C10 amended: a link that contains arxiv.org gets the arxiv strategy unless
\* it ends in .pdf; one that also ends in .pdf gets the pdf strategy.
C10_ArxivUnlessPdf ==
    \A t \in Tasks : scraper_name[t] # "none" =>
        /\ urls[t] = LinkArxiv => scraper_name[t] = "ArxivScraper"
        /\ urls[t] = LinkArxivPdf => scraper_name[t] = "PyMuPDFScraper"

\* C10 witness: an arxiv.org link ending in .pdf was given the pdf strategy.
C10_Witness ==
    \E t \in Tasks :
        /\ urls[t] = LinkArxivPdf
        /\ scraper_name[t] = "PyMuPDFScraper"


\* The sink was called for task t and raised: a call, and no row of t's.
SinkRaised(t) == db_calls[t] = 1 /\ ~(\E row \in pages : row.id = t)

\* C16: insert_scraped_page is called exactly once for a target whose
\* outcome is Accepted when a job id is configured, and never otherwise
\* (Rejected, Failed, no job id); a write that fails is not retried.  The
\* row carries the url, the title, the content, the strategy's name, the
\* image urls, and the length of the content.
C16_OneWritePerAccepted ==
    /\ \A t \in Tasks :
        /\ db_calls[t] <= 1
        /\ db_calls[t] = 1 <=> (status[t] = "Accepted" /\ job_id # None)
    /\ \A row \in pages :
        /\ row.id \in Tasks
        /\ ReturnedTriple(row.id)
        /\ row.job_id = job_id
        /\ row.url = urls[row.id]
        /\ row.content = got[row.id].value[1]
        /\ row.title = got[row.id].value[3]
        /\ row.metadata.scraper = get_scraper(urls[row.id], scraper).value
        /\ row.metadata.image_urls = got[row.id].value[2]
        /\ row.metadata.content_length = Len(row.content)
    /\ \A r1, r2 \in pages : r1.id = r2.id => r1 = r2

C16_Witness ==
    /\ run_state = "returned"
    /\ job_id # None
    /\ \E t, u \in Tasks :
        /\ status[t] = "Accepted" /\ db_calls[t] = 1
        /\ \E row \in pages : row.id = t /\ row.metadata.content_length = MinContentLen
        /\ status[u] = "Rejected" /\ db_calls[u] = 0

\* C17: a sink write that raises leaves the outcome as it is when the
\* write succeeds: Accepted, with the content, image urls and title the
\* strategy returned; nothing is raised out of the task, and no sibling's
\* outcome depends on it.
C17_SinkErrorSwallowed ==
    \A t \in Tasks : SinkRaised(t) =>
        /\ pc[t] = "done"
        /\ exc[t] = "none"
        /\ status[t] = "Accepted"
        /\ error_log[t] = ""
        /\ contents[t] = accepted(urls[t], got[t].value[1], got[t].value[2], got[t].value[3])
        /\ run_state # "raised"
        /\ \A u \in Tasks \ {t} : exc[u] = "none" \/ cancel_requested

C17_Witness ==
    /\ run_state = "returned"
    /\ ~cancel_requested
    /\ \E t, u \in Tasks :
        /\ SinkRaised(t)
        /\ status[t] = "Accepted"
        /\ status[u] = "Accepted" /\ ~SinkRaised(u) /\ db_calls[u] = 1
        /\ Len(res) = 2

\* C20: a strategy that returns a triple whose text has fewer than 100
\* characters (the empty text included) gives the Rejected outcome: no
\* content, no image urls, the title the strategy returned, no error logged
\* and no sink write; a text of exactly 100 characters is accepted.
C20_ShortContentRejected ==
    \A t \in Tasks : (pc[t] = "done" /\ ReturnedTriple(t)) =>
        /\ Len(got[t].value[1]) < 100 =>
            /\ status[t] = "Rejected"
            /\ contents[t] = [url |-> urls[t], raw_content |-> None,
                              image_urls |-> <<>>, title |-> got[t].value[3]]
            /\ error_log[t] = ""
            /\ db_calls[t] = 0
        /\ Len(got[t].value[1]) = 100 => status[t] = "Accepted"

C20_Witness ==
    \E t, u \in Tasks :
        /\ pc[t] = "done" /\ ReturnedTriple(t)
        /\ Len(got[t].value[1]) = 99
        /\ status[t] = "Rejected"
        /\ contents[t].title = "T"
        /\ job_id # None
        /\ pc[u] = "done" /\ ReturnedTriple(u)
        /\ Len(got[u].value[1]) = 100
        /\ status[u] = "Accepted"

\* ------------------------------------------------------------------------
\* ScraperAPI.scrape_url: the bounded-retry adapter (scraperapi.py)
\* ------------------------------------------------------------------------

\* num_retries values tried (the constructor's default is 5)
MaxRetries == 4

\* Body lengths of a response
BodyLens == {0, 2}

\* What one requests.get can end in: a response with a status code and a
\* text, requests.exceptions.ConnectionError, or another exception of
\* requests (ReadTimeout is not a ConnectionError).
HttpResponse(code, n) == [kind |-> "Response", status_code |-> code, text |-> Text(n)]
ConnectionError == [kind |-> "ConnectionError", status_code |-> 0, text |-> <<>>]
ReadTimeout == [kind |-> "ReadTimeout", status_code |-> 0, text |-> <<>>]
RequestOutcomes ==
    {HttpResponse(c, n) : c \in {200, 404, 500}, n \in BodyLens}
        \cup {ConnectionError, ReadTimeout}

\* The local variable `response`
Unbound == [kind |-> "unbound", status_code |-> 0, text |-> <<>>]
NoneResponse == [kind |-> "None", status_code |-> 0, text |-> <<>>]

\* variant of is_terminal: only 200 ends the loop
is_terminal_ok_only(status_code) == status_code = 200

\* `if response.status_code in [200, 404]: break`
is_terminal(status_code) == status_code \in {200, 404}

\* bool(response): None is false, a requests.Response is true iff it is ok
truthy(response) ==
    /\ response.kind = "Response"
    /\ response.status_code < 400

\* One iteration of `for _ in range(self.num_retries)`: one request.
api_request ==
    /\ api_pc = "loop"
    /\ api_i < api_num_retries
    /\ \E r \in RequestOutcomes :
        /\ api_i' = api_i + 1
        /\ api_requests' = Append(api_requests, r)
        /\ IF r.kind = "Response"
           THEN /\ api_response' = r
                /\ api_pc' = IF is_terminal(r.status_code) THEN "after_loop" ELSE "loop"
                /\ api_exc' = api_exc
           ELSE IF r.kind = "ConnectionError"
           THEN /\ api_response' = NoneResponse
                /\ api_pc' = "loop"
                /\ api_exc' = api_exc
           ELSE /\ api_response' = api_response
                /\ api_pc' = "raised"
                /\ api_exc' = r.kind
    /\ UNCHANGED <<api_num_retries, api_return>>

\* After the loop (broken out of, or exhausted): lines 44-48.
api_result ==
    /\ \/ api_pc = "after_loop"
       \/ api_pc = "loop" /\ api_i = api_num_retries
    /\ IF api_response.kind = "unbound"
       THEN /\ api_pc' = "raised"
            /\ api_exc' = "UnboundLocalError"
            /\ api_return' = api_return
       ELSE /\ api_pc' = "returned"
            /\ api_exc' = api_exc
            /\ api_return' = IF truthy(api_response) /\ api_response.status_code = 200
                             THEN api_response.text
                             ELSE <<>>
    /\ UNCHANGED <<api_num_retries, api_i, api_response, api_requests>>

InitApi ==
    /\ api_num_retries \in 0..MaxRetries
    /\ api_pc = "loop"
    /\ api_i = 0
    /\ api_response = Unbound
    /\ api_requests = <<>>
    /\ api_return = <<>>
    /\ api_exc = "none"
    /\ orch_idle /\ bee_idle /\ norm_idle /\ db_idle /\ red_idle /\ dbm_idle

NextApi ==
    \/ api_request /\ UNCHANGED <<orch_vars, bee_vars, norm_vars, db_vars, red_vars, dbm_vars>>
    \/ api_result /\ UNCHANGED <<orch_vars, bee_vars, norm_vars, db_vars, red_vars, dbm_vars>>

SpecApi == InitApi /\ [][NextApi]_vars

api_done == api_pc \in {"returned", "raised"}

OnlyConnectionErrors ==
    /\ Len(api_requests) = api_num_retries
    /\ \A k \in 1..Len(api_requests) : api_requests[k] = ConnectionError

\* C11: scrape_url that receives only connection errors for num_retries
\* consecutive attempts returns the empty string and does not raise, for
\* every value of num_retries.  With num_retries = 0 the loop body never
\* runs, `response` is never bound, and line 44 raises UnboundLocalError.
C11_Original ==
    (api_done /\ OnlyConnectionErrors)
        => (api_pc = "returned" /\ api_return = <<>> /\ api_exc = "none")

\* C12: a 200 or 404 response is terminal (no request follows one, so a 404
\* on the first attempt means exactly one request), every request consumes
\* one attempt of the loop, and at most num_retries requests are issued.
C12_TerminalAndBounded ==
    /\ Len(api_requests) <= api_num_retries
    /\ api_i = Len(api_requests)
    /\ \A k \in 1..Len(api_requests) :
        (api_requests[k].kind = "Response" /\ api_requests[k].status_code \in {200, 404})
            => k = Len(api_requests)
    /\ (api_done /\ api_requests # <<>> /\ api_requests[1].status_code = 404)
        => Len(api_requests) = 1

C12_Witness ==
    /\ api_pc = "returned"
    /\ api_num_retries > 2
    /\ Len(api_requests) = 3
    /\ api_requests[1] = ConnectionError
    /\ api_requests[2].status_code = 500
    /\ api_requests[3].status_code = 404


\* Every request of the history ended in a response or a connection error.
ListedResultsOnly ==
    \A k \in 1..Len(api_requests) :
        api_requests[k].kind \in {"Response", "ConnectionError"}

LastIsOk ==
    /\ api_requests # <<>>
    /\ api_requests[Len(api_requests)].kind = "Response"
    /\ api_requests[Len(api_requests)].status_code = 200

\* C22 as stated: for every num_retries and every sequence of per-attempt
\* results (200, 404, another status, connection error) scrape_url returns
\* without raising: the body when the last result is a 200, the empty
\* string otherwise.  With num_retries = 0 there is no result at all and
\* line 44 raises UnboundLocalError.
C22_Original ==
    (api_done /\ ListedResultsOnly) =>
        /\ api_pc = "returned"
        /\ api_exc = "none"
        /\ api_return = IF LastIsOk
                        THEN api_requests[Len(api_requests)].text
                        ELSE <<>>

\* ------------------------------------------------------------------------
\* The adapters' text post-processing (scraping_bee.py 65-67, zenrows.py 58-60)
\* ------------------------------------------------------------------------

\* Longest raw text tried
MaxTextLen == 5

\* Characters of the texts tried: a letter, the blanks str.strip removes,
\* and the line boundaries str.splitlines splits at ("\r\n" is one boundary)
Alphabet == {"a", " ", "\t", "\n", "\r"}
Whitespace == {" ", "\t", "\n", "\r"}
LineBreaks == {"\n", "\r"}
Newline == <<"\n">>

RECURSIVE lstrip(_)
lstrip(s) ==
    IF s = <<>> THEN <<>>
    ELSE IF Head(s) \in Whitespace THEN lstrip(Tail(s))
    ELSE s

RECURSIVE rstrip(_)
rstrip(s) ==
    IF s = <<>> THEN <<>>
    ELSE IF s[Len(s)] \in Whitespace THEN rstrip(SubSeq(s, 1, Len(s) - 1))
    ELSE s

\* str.strip()
strip(s) == rstrip(lstrip(s))

\* str.splitlines(): no empty last line after a final line boundary
RECURSIVE splitlines(_)
splitlines(s) ==
    IF s = <<>> THEN <<>>
    ELSE LET at == {k \in 1..Len(s) : s[k] \in LineBreaks}
         IN  IF at = {} THEN <<s>>
             ELSE LET k == CHOOSE x \in at : \A y \in at : x <= y
                      w == IF s[k] = "\r" /\ k < Len(s) /\ s[k + 1] = "\n" THEN 2 ELSE 1
                  IN  <<SubSeq(s, 1, k - 1)>> \o splitlines(SubSeq(s, k + w, Len(s)))

\* line.split("  "): split at each two-space separator, left to right
RECURSIVE split_two_spaces(_)
split_two_spaces(s) ==
    LET at == {k \in 1..(Len(s) - 1) : s[k] = " " /\ s[k + 1] = " "}
    IN  IF at = {} THEN <<s>>
        ELSE LET k == CHOOSE x \in at : \A y \in at : x <= y
             IN  <<SubSeq(s, 1, k - 1)>> \o split_two_spaces(SubSeq(s, k + 2, Len(s)))

\* "\n".join(parts)
RECURSIVE join(_)
join(parts) ==
    IF parts = <<>> THEN <<>>
    ELSE IF Len(parts) = 1 THEN parts[1]
    ELSE parts[1] \o Newline \o join(Tail(parts))

\* variant of chunk_strip: the phrases are not stripped
chunk_strip_none(phrase) == phrase

\* `phrase.strip()` of the chunks generator
chunk_strip(phrase) == strip(phrase)

\* chunks: for line in lines, for phrase in line.split("  ")
RECURSIVE chunks_of(_)
chunks_of(lines) ==
    IF lines = <<>> THEN <<>>
    ELSE LET phrases == split_two_spaces(Head(lines))
         IN  [i \in 1..Len(phrases) |-> chunk_strip(phrases[i])] \o chunks_of(Tail(lines))

nonempty(chunk) == chunk # <<>>

\* raw_content -> text_content
post(raw_content) ==
    LET split == splitlines(raw_content)
        lines == [i \in 1..Len(split) |-> strip(split[i])]
    IN  join(SelectSeq(chunks_of(lines), nonempty))

Texts == UNION {[1..n -> Alphabet] : n \in 0..MaxTextLen}

\* text_content = post(raw_content)
norm_apply ==
    /\ norm_pc = "raw"
    /\ norm_once' = post(norm_text)
    /\ norm_pc' = "once"
    /\ UNCHANGED <<norm_text, norm_twice>>

\* the same post-processing run on its own output
norm_reapply ==
    /\ norm_pc = "once"
    /\ norm_twice' = post(norm_once)
    /\ norm_pc' = "twice"
    /\ UNCHANGED <<norm_text, norm_once>>

InitNorm ==
    /\ norm_text \in Texts
    /\ norm_pc = "raw"
    /\ norm_once = <<>>
    /\ norm_twice = <<>>
    /\ orch_idle /\ api_idle /\ bee_idle /\ db_idle /\ red_idle /\ dbm_idle

NextNorm ==
    \/ norm_apply /\ UNCHANGED <<orch_vars, api_vars, bee_vars, db_vars, red_vars, dbm_vars>>
    \/ norm_reapply /\ UNCHANGED <<orch_vars, api_vars, bee_vars, db_vars, red_vars, dbm_vars>>

SpecNorm == InitNorm /\ [][NextNorm]_vars


\* Every line of x (lines being what single "\n" separate) is non-empty
\* and has no blank at either end.
NonEmptyLines(x) ==
    /\ x # <<>>
    /\ x[1] \notin Whitespace
    /\ x[Len(x)] \notin Whitespace
    /\ \A k \in 2..(Len(x) - 1) :
        x[k] = "\n" => (x[k - 1] \notin Whitespace /\ x[k + 1] \notin Whitespace)

\* No line of x holds two spaces in a row or a carriage return.
NoInnerBreak(x) ==
    /\ \A k \in 1..(Len(x) - 1) : ~(x[k] = " " /\ x[k + 1] = " ")
    /\ \A k \in 1..Len(x) : x[k] # "\r"

Normalized(x) == x = <<>> \/ (NonEmptyLines(x) /\ NoInnerBreak(x))

\* C18 as stated: post-processing text made of non-empty lines separated
\* by single newlines returns the identical string.
C18_Original ==
    (norm_pc # "raw" /\ NonEmptyLines(norm_text)) => norm_once = norm_text

\* C18 amended: post(post(x)) = post(x) for every text x, and post(x) = x
\* exactly for the texts whose lines are non-empty, separated by single
\* newlines, without a blank at either end, and without two spaces in a
\* row or a carriage return inside.
C18_PostIdempotent ==
    /\ norm_pc = "twice" => norm_twice = norm_once
    /\ norm_pc # "raw" => (norm_once = norm_text <=> Normalized(norm_text))
    /\ norm_pc # "raw" => Normalized(norm_once)

C18_Witness ==
    /\ norm_pc = "twice"
    /\ norm_text = <<"a", " ", " ", "\t", "a">>
    /\ norm_once = <<"a", "\n", "a">>
    /\ norm_twice = norm_once


\* ------------------------------------------------------------------------
\* ScrapingBeeScraper.scrape and ZenRowsScraper.scrape
\* ------------------------------------------------------------------------

\* PREMIUM_PROXY_DOMAINS (scraping_bee.py:5, zenrows.py:5)
PREMIUM_PROXY_DOMAINS ==
    << <<"r", "e", "d", "d", "i", "t", ".", "c", "o", "m">>,
       <<"t", "w", "i", "t", "t", "e", "r", ".", "c", "o", "m">>,
       <<"l", "i", "n", "k", "e", "d", "i", "n", ".", "c", "o", "m">>,
       <<"i", "n", "s", "t", "a", "g", "r", "a", "m", ".", "c", "o", "m">> >>

\* Links handed to an adapter: one on each premium host, one on another
\* host naming a premium domain in its query, one naming it in its path,
\* and one that names none.
BeeLinkReddit == <<"h", "t", "t", "p", ":", "/", "/", "r", "e", "d", "d", "i", "t", ".", "c", "o", "m", "/", "r">>
BeeLinkTwitter == <<"h", "t", "t", "p", ":", "/", "/", "t", "w", "i", "t", "t", "e", "r", ".", "c", "o", "m", "/", "u">>
BeeLinkLinkedin == <<"h", "t", "t", "p", ":", "/", "/", "l", "i", "n", "k", "e", "d", "i", "n", ".", "c", "o", "m", "/", "i", "n">>
BeeLinkInstagram == <<"h", "t", "t", "p", ":", "/", "/", "i", "n", "s", "t", "a", "g", "r", "a", "m", ".", "c", "o", "m", "/", "p">>
BeeLinkQuery == <<"h", "t", "t", "p", ":", "/", "/", "h", ".", "i", "o", "/", "?", "u", "=", "r", "e", "d", "d", "i", "t", ".", "c", "o", "m">>
BeeLinkPath == <<"h", "t", "t", "p", ":", "/", "/", "h", ".", "i", "o", "/", "t", "w", "i", "t", "t", "e", "r", ".", "c", "o", "m">>
BeeLinkPlain == <<"h", "t", "t", "p", ":", "/", "/", "h", ".", "i", "o", "/", "a">>
BeeLinks ==
    {BeeLinkReddit, BeeLinkTwitter, BeeLinkLinkedin, BeeLinkInstagram,
     BeeLinkQuery, BeeLinkPath, BeeLinkPlain}

BeeAdapters == {"ScrapingBeeScraper", "ZenRowsScraper"}

\* self.client.get returns a response, or raises once the client gives up
ClientResults == {"ok", "ConnectionError", "Timeout"}

\* BeautifulSoup(...) and parse_page return the page's text, or raise
ParseErrors == {"ParserError"}

\* parse_page: the text of each p/h1..h5 element followed by "\n"
RawContents ==
    { <<>>,
      <<"a", "\n">>,
      <<"a", "\n", "a", "\n">>,
      <<" ", "a", " ", " ", "a", "\t", "\n", "\n">> }

\* `True if any(domain in self.link for domain in PREMIUM_PROXY_DOMAINS) else False`
premium_proxy(link) ==
    IF \E d \in 1..Len(PREMIUM_PROXY_DOMAINS) : contains(link, PREMIUM_PROXY_DOMAINS[d])
    THEN "True"
    ELSE "False"

\* variant of bee_caught: only connection errors are caught
bee_caught_connection_only(e) == e = "ConnectionError"

\* `except Exception as e`: the classes it catches
bee_caught(e) == e \in {"ConnectionError", "Timeout", "ParserError"}

\* What the try block does with an exception raised inside it
bee_except(e) ==
    IF bee_caught(e)
    THEN /\ bee_pc' = "returned"
         /\ bee_return' = <<>>
         /\ bee_exc' = bee_exc
    ELSE /\ bee_pc' = "raised"
         /\ bee_return' = bee_return
         /\ bee_exc' = e

\* scrape(): the request with its parameters, the parse, the post-processing
bee_scrape ==
    /\ bee_pc = "start"
    /\ bee_premium_proxy' = premium_proxy(bee_link)
    /\ \E c \in ClientResults :
        /\ bee_client' = c
        /\ IF c # "ok"
           THEN /\ bee_parse' = bee_parse
                /\ bee_except(c)
           ELSE \/ \E e \in ParseErrors :
                    /\ bee_parse' = e
                    /\ bee_except(e)
                \/ \E raw_content \in RawContents :
                    /\ bee_parse' = "ok"
                    /\ bee_pc' = "returned"
                    /\ bee_return' = post(raw_content)
                    /\ bee_exc' = bee_exc
    /\ UNCHANGED <<bee_adapter, bee_link, bee_unpacked>>

\* `content, image_urls, title = result`: three items, or ValueError
unpack3(result) == IF Len(result) = 3 THEN "ok" ELSE "ValueError"

\* Scraper.extract_data_from_url unpacking what scrape returned
\* (scraper.py 117-123)
bee_unpack ==
    /\ bee_pc = "returned"
    /\ bee_unpacked' = unpack3(bee_return)
    /\ bee_pc' = "unpacked"
    /\ UNCHANGED <<bee_adapter, bee_link, bee_premium_proxy, bee_client,
                   bee_parse, bee_return, bee_exc>>

InitBee ==
    /\ bee_adapter \in BeeAdapters
    /\ bee_link \in BeeLinks
    /\ bee_pc = "start"
    /\ bee_premium_proxy = "unsent"
    /\ bee_client = "uncalled"
    /\ bee_parse = "unparsed"
    /\ bee_return = <<>>
    /\ bee_exc = "none"
    /\ bee_unpacked = "pending"
    /\ orch_idle /\ api_idle /\ norm_idle /\ db_idle /\ red_idle /\ dbm_idle

NextBee ==
    \/ bee_scrape /\ UNCHANGED <<orch_vars, api_vars, norm_vars, db_vars, red_vars, dbm_vars>>
    \/ bee_unpack /\ UNCHANGED <<orch_vars, api_vars, norm_vars, db_vars, red_vars, dbm_vars>>

SpecBee == InitBee /\ [][NextBee]_vars

bee_left == bee_pc \in {"returned", "unpacked", "raised"}

\* C13: an exception raised by the client call or by parsing the response
\* is caught and turned into the empty string; scrape never raises.
C13_ScrapeNeverRaises ==
    /\ bee_pc # "raised"
    /\ bee_exc = "none"
    /\ (bee_left /\ (bee_client # "ok" \/ bee_parse # "ok")) => bee_return = <<>>

C13_Witness ==
    /\ bee_adapter = "ZenRowsScraper"
    /\ bee_pc = "returned"
    /\ bee_client = "ok"
    /\ bee_parse = "ParserError"
    /\ bee_return = <<>>


\* The host of a link: what stands between "//" and the next "/".
host(link) ==
    LET from == (CHOOSE k \in 1..(Len(link) - 1) :
                    /\ link[k] = "/" /\ link[k + 1] = "/"
                    /\ \A j \in 1..(k - 1) : ~(link[j] = "/" /\ link[j + 1] = "/")) + 2
        ends == {k \in from..Len(link) : link[k] = "/"}
        to == IF ends = {} THEN Len(link)
              ELSE (CHOOSE k \in ends : \A j \in ends : k <= j) - 1
    IN  SubSeq(link, from, to)

PremiumHosts == {PREMIUM_PROXY_DOMAINS[d] : d \in 1..Len(PREMIUM_PROXY_DOMAINS)}

\* C14 as stated: premium_proxy is sent true if and only if the host of
\* the link is one of the premium domains; a link that names such a domain
\* only in its path or query sends false.  The code tests the whole link
\* for the domain as a substring.
C14_Original ==
    bee_left =>
        (bee_premium_proxy = "True" <=> host(bee_link) \in PremiumHosts)

\* C15 as stated: scrape returns a (content, image_urls, title) triple on
\* every path, so the caller's three-way unpacking succeeds.  The adapters
\* return one string, "" on the error path.
C15_Original ==
    bee_pc = "unpacked" => bee_unpacked = "ok"


\* ------------------------------------------------------------------------
\* DatabaseManager: the persistence sink (db_utils.py)
\* ------------------------------------------------------------------------

\* Sink calls made in one history
MaxCalls == 3

\* What .execute() does: the statement is applied and the rows come back,
\* or it fails (it raises, or the response carries an error) and nothing
\* is applied.
ExecuteResults == {"stored", "raised"}

Queries == {"q"}
PageUrls == {"u1", "u2"}
LogMessages == {"m"}
JobStatuses == {"completed", "failed"}
\* Optional arguments of update_research_job: "None" is `not given`
CostArgs == {"None", "0.5"}
ReportArgs == {"None", "r"}

NoCall == [op |-> "none", args |-> <<>>, result |-> ""]

tables == <<db_jobs, db_pages, db_logs>>

\* The bookkeeping every call shares: a new reading of the clock, the call
\* and the tables before it remembered.
db_record(op, args, result) ==
    /\ db_clock' = db_clock + 1
    /\ db_prev_call' = db_call
    /\ db_call' = [op |-> op, args |-> args, result |-> result]
    /\ db_before' = tables

\* str(uuid.uuid4()): an id no row has yet
fresh_uuid(issued) == issued + 1

\* create_research_job(query)
create_research_job ==
    /\ db_clock < MaxCalls
    /\ \E query \in Queries, x \in ExecuteResults :
        LET job_data == [id |-> fresh_uuid(db_uuid), query |-> query,
                         started_at |-> db_clock + 1, finished_at |-> 0,
                         status |-> "in_progress", research_costs |-> "0.0",
                         report |-> "None", error_message |-> "None"]
        IN  /\ db_uuid' = db_uuid + 1
            /\ db_jobs' = IF x = "stored" THEN db_jobs \cup {job_data} ELSE db_jobs
            /\ db_record("create_research_job", <<query>>, x)
    /\ UNCHANGED <<db_pages, db_logs>>

\* insert_scraped_page(job_id, url, title, content, metadata)
insert_scraped_page ==
    /\ db_clock < MaxCalls
    /\ \E job \in db_jobs, url \in PageUrls, x \in ExecuteResults :
        LET page_data == [id |-> fresh_uuid(db_uuid), job_id |-> job.id, url |-> url,
                          scraped_at |-> db_clock + 1]
        IN  /\ db_uuid' = db_uuid + 1
            /\ db_pages' = IF x = "stored" THEN db_pages \cup {page_data} ELSE db_pages
            /\ db_record("insert_scraped_page", <<job.id, url>>, x)
    /\ UNCHANGED <<db_jobs, db_logs>>

\* insert_log(job_id, level, message, details)
insert_log ==
    /\ db_clock < MaxCalls
    /\ \E job \in db_jobs, message \in LogMessages, x \in ExecuteResults :
        LET log_data == [id |-> fresh_uuid(db_uuid), job_id |-> job.id, level |-> "info",
                         message |-> message, created_at |-> db_clock + 1]
        IN  /\ db_uuid' = db_uuid + 1
            /\ db_logs' = IF x = "stored" THEN db_logs \cup {log_data} ELSE db_logs
            /\ db_record("insert_log", <<job.id, message>>, x)
    /\ UNCHANGED <<db_jobs, db_pages>>

\* update_data applied to one row of jobs
updated(row, now, job_status, research_costs, report) ==
    [row EXCEPT !.finished_at = now,
                !.status = job_status,
                !.error_message = "None",
                !.research_costs = IF research_costs # "None" THEN research_costs ELSE @,
                !.report = IF report # "None" THEN report ELSE @]

\* update_research_job(job_id, status, research_costs, visited_urls, report)
update_research_job ==
    /\ db_clock < MaxCalls
    /\ \E job \in db_jobs, job_status \in JobStatuses, research_costs \in CostArgs,
          report \in ReportArgs, x \in ExecuteResults :
        /\ db_jobs' = IF x = "stored"
                      THEN {IF row.id = job.id
                            THEN updated(row, db_clock + 1, job_status, research_costs, report)
                            ELSE row : row \in db_jobs}
                      ELSE db_jobs
        /\ db_record("update_research_job", <<job.id, job_status, research_costs, report>>, x)
    /\ UNCHANGED <<db_pages, db_logs, db_uuid>>

InitDb ==
    /\ db_jobs = {}
    /\ db_pages = {}
    /\ db_logs = {}
    /\ db_uuid = 0
    /\ db_clock = 0
    /\ db_call = NoCall
    /\ db_prev_call = NoCall
    /\ db_before = <<{}, {}, {}>>
    /\ orch_idle /\ api_idle /\ bee_idle /\ norm_idle /\ red_idle /\ dbm_idle

NextDb ==
    \/ create_research_job /\ UNCHANGED <<orch_vars, api_vars, bee_vars, norm_vars, red_vars, dbm_vars>>
    \/ insert_scraped_page /\ UNCHANGED <<orch_vars, api_vars, bee_vars, norm_vars, red_vars, dbm_vars>>
    \/ insert_log /\ UNCHANGED <<orch_vars, api_vars, bee_vars, norm_vars, red_vars, dbm_vars>>
    \/ update_research_job /\ UNCHANGED <<orch_vars, api_vars, bee_vars, norm_vars, red_vars, dbm_vars>>

SpecDb == InitDb /\ [][NextDb]_vars

\* The last call repeats the call before it, which had been applied.
Repeated ==
    /\ db_prev_call.op # "none"
    /\ db_prev_call.result = "stored"
    /\ db_call.op = db_prev_call.op
    /\ db_call.args = db_prev_call.args

\* C19 as stated: repeating a sink call with the same arguments leaves the
\* stored records as they were after the first call.  Every insert takes a
\* fresh uuid, so the repeat adds a second row; the repeat of an update
\* moves finished_at.
C19_Original ==
    Repeated => tables = db_before


\* ------------------------------------------------------------------------
\* Scraper over strategies of both forms (scrape and scrape_async)
\* ------------------------------------------------------------------------

\* The classes a batch of these links selects with default key "bs"
FormClasses == {"BeautifulSoupScraper", "PyMuPDFScraper"}

\* As Init, with any of the selected classes defining scrape_async.
InitForms ==
    /\ \E n \in 0..MaxUrls : urls \in [1..n -> {LinkHtml, LinkPdf}]
    /\ scraper = "bs"
    /\ job_id = None
    /\ limit \in 1..MaxWorkers
    /\ async_classes \in SUBSET FormClasses
    /\ pc = [t \in Tasks |-> "waiting"]
    /\ slots = 0
    /\ scraper_name = [t \in Tasks |-> "none"]
    /\ how = [t \in Tasks |-> "none"]
    /\ got = [t \in Tasks |-> NotRun]
    /\ status = [t \in Tasks |-> "none"]
    /\ error_log = [t \in Tasks |-> ""]
    /\ exc = [t \in Tasks |-> "none"]
    /\ contents = [t \in Tasks |-> Pending]
    /\ db_calls = [t \in Tasks |-> 0]
    /\ pages = {}
    /\ cancel_requested = FALSE
    /\ run_state = "running"
    /\ res = <<>>
    /\ overtook = FALSE
    /\ api_idle /\ bee_idle /\ norm_idle /\ db_idle /\ red_idle /\ dbm_idle

SpecForms == InitForms /\ [][Next]_vars

\* Task t's strategy is in flight.
Scraping(t) == pc[t] = "scraping"

\* C21: a strategy that has only the blocking form is handed to the worker
\* pool's executor and never called on the scheduling thread, a strategy
\* with scrape_async is awaited directly; in both forms the task holds its
\* throttle slot while the strategy runs, and while one task's strategy is
\* in flight every other task can still take its next step.
C21_BlockingFormOffLoop ==
    \A t \in Tasks :
        /\ how[t] # "inline"
        /\ Scraping(t) =>
            /\ how[t] = IF scraper_name[t] \in async_classes
                        THEN "awaited" ELSE "executor"
            /\ t \in InScope
            /\ slots >= Cardinality({u \in Tasks : Scraping(u)})
            /\ slots >= 1
        /\ (Scraping(t) /\ ~cancel_requested) =>
            \A u \in Tasks \ {t} :
                /\ Scraping(u) => ENABLED extract_resume(u)
                /\ (pc[u] = "waiting" /\ slots < limit) => ENABLED extract_start(u)

C21_Witness ==
    \E t, u \in Tasks :
        /\ Scraping(t) /\ how[t] = "executor"
        /\ Scraping(u) /\ how[u] = "awaited"
        /\ slots = 2


\* ------------------------------------------------------------------------
\* parse_reddit_page (scraping_bee.py 88-107, zenrows.py 81-100)
\* ------------------------------------------------------------------------

\* usertext-body elements in one page
MaxElements == 3

\* element.text of an element: empty, blank, a word, a word inside blanks
ElementTexts == { <<>>, <<" ", "\n">>, <<"a">>, <<" ", "b", " ">> }

Pages == UNION {[1..n -> ElementTexts] : n \in 0..MaxElements}

\* "Comment "
CommentWord == <<"C", "o", "m", "m", "e", "n", "t", " ">>

Digits == <<"0", "1", "2", "3", "4", "5", "6", "7", "8", "9">>

\* str(n) of a natural number
RECURSIVE decimal(_)
decimal(n) ==
    IF n < 10 THEN <<Digits[n + 1]>>
    ELSE decimal(n \div 10) \o <<Digits[(n % 10) + 1]>>

\* variant of is_comment: every element is kept
is_comment_any(text) == TRUE

\* `if element.text and element.text.strip() != ""`
is_comment(text) == text # <<>> /\ strip(text) # <<>>

\* f"Comment {index + 1}:\n{comment}\n"
comment_block(index, comment) ==
    CommentWord \o decimal(index + 1) \o <<":", "\n">> \o comment \o <<"\n">>

\* One turn of `for element in soup.find_all(class_=cssClasses)`
red_collect ==
    /\ red_pc = "collect"
    /\ red_i < Len(red_elements)
    /\ red_i' = red_i + 1
    /\ red_comment_array' =
        IF is_comment(red_elements[red_i + 1])
        THEN Append(red_comment_array, red_elements[red_i + 1])
        ELSE red_comment_array
    /\ UNCHANGED <<red_elements, red_pc, red_index, red_text_content>>

\* The first loop is over: text_content = ""
red_collected ==
    /\ red_pc = "collect"
    /\ red_i = Len(red_elements)
    /\ red_pc' = "format"
    /\ red_text_content' = <<>>
    /\ UNCHANGED <<red_elements, red_i, red_comment_array, red_index>>

\* One turn of `for index, comment in enumerate(comment_array)`
red_format ==
    /\ red_pc = "format"
    /\ red_index < Len(red_comment_array)
    /\ red_text_content' =
        red_text_content \o comment_block(red_index, red_comment_array[red_index + 1])
    /\ red_index' = red_index + 1
    /\ UNCHANGED <<red_elements, red_pc, red_i, red_comment_array>>

\* return text_content
red_return ==
    /\ red_pc = "format"
    /\ red_index = Len(red_comment_array)
    /\ red_pc' = "returned"
    /\ UNCHANGED <<red_elements, red_i, red_comment_array, red_index, red_text_content>>

InitReddit ==
    /\ red_elements \in Pages
    /\ red_pc = "collect"
    /\ red_i = 0
    /\ red_comment_array = <<>>
    /\ red_index = 0
    /\ red_text_content = <<>>
    /\ orch_idle /\ api_idle /\ bee_idle /\ norm_idle /\ db_idle /\ dbm_idle

NextReddit ==
    \/ red_collect /\ UNCHANGED <<orch_vars, api_vars, bee_vars, norm_vars, db_vars, dbm_vars>>
    \/ red_collected /\ UNCHANGED <<orch_vars, api_vars, bee_vars, norm_vars, db_vars, dbm_vars>>
    \/ red_format /\ UNCHANGED <<orch_vars, api_vars, bee_vars, norm_vars, db_vars, dbm_vars>>
    \/ red_return /\ UNCHANGED <<orch_vars, api_vars, bee_vars, norm_vars, db_vars, dbm_vars>>

SpecReddit == InitReddit /\ [][NextReddit]_vars

\* The element's text has a character that is not whitespace.
HasText(text) == \E k \in 1..Len(text) : text[k] \notin Whitespace

\* The elements with text, as positions in the document.
Kept == {j \in 1..Len(red_elements) : HasText(red_elements[j])}

\* The number the j-th element of the document gets: one more than the
\* elements with text before it.
NumberOf(j) == 1 + Cardinality({i \in Kept : i < j})

\* The blocks of the first j elements of the document, in document order.
RECURSIVE BlocksUpTo(_)
BlocksUpTo(j) ==
    IF j = 0 THEN <<>>
    ELSE IF j \in Kept
    THEN BlocksUpTo(j - 1) \o CommentWord \o decimal(NumberOf(j))
             \o <<":", "\n">> \o red_elements[j] \o <<"\n">>
    ELSE BlocksUpTo(j - 1)

\* C23: the text returned holds one block "Comment <n>:\n<text>" for each
\* element whose text is not empty or blank, in document order, numbered
\* 1..k with k the number of such elements; an element that is skipped
\* takes no number.
C23_CommentsNumberedInOrder ==
    /\ Len(red_comment_array) <= Cardinality(Kept)
    /\ red_index <= Len(red_comment_array)
    /\ red_pc = "returned" =>
        /\ red_index = Cardinality(Kept)
        /\ red_text_content = BlocksUpTo(Len(red_elements))

C23_Witness ==
    /\ red_pc = "returned"
    /\ red_elements = << <<"a">>, <<" ", "\n">>, <<" ", "b", " ">> >>
    /\ red_text_content =
        <<"C", "o", "m", "m", "e", "n", "t", " ", "1", ":", "\n", "a", "\n",
          "C", "o", "m", "m", "e", "n", "t", " ", "2", ":", "\n", " ", "b", " ", "\n">>


\* ------------------------------------------------------------------------
\* Scraper.run left to finish: no cancellation, fair scheduling
\* ------------------------------------------------------------------------

start_step(t) ==
    /\ t \in Tasks
    /\ extract_start(t)
    /\ UNCHANGED <<api_vars, bee_vars, norm_vars, db_vars, red_vars, dbm_vars>>

resume_step(t) ==
    /\ t \in Tasks
    /\ extract_resume(t)
    /\ UNCHANGED <<api_vars, bee_vars, norm_vars, db_vars, red_vars, dbm_vars>>

run_step ==
    /\ run
    /\ UNCHANGED <<api_vars, bee_vars, norm_vars, db_vars, red_vars, dbm_vars>>

\* The steps of a run the caller does not cancel.
NextLive ==
    \/ \E t \in Tasks : start_step(t)
    \/ \E t \in Tasks : resume_step(t)
    \/ run_step

\* The event loop runs every callback that is ready: a task that can enter
\* the throttle does, a strategy in flight ends and its task is resumed
\* (every strategy call and sink write terminates), and run() is resumed
\* once gather is complete.
Fairness ==
    /\ \A t \in 1..MaxUrls : WF_vars(start_step(t)) /\ WF_vars(resume_step(t))
    /\ WF_vars(run_step)

\* The batches followed to their end: a registered default key, a job id
\* (so that pages are written), links of two kinds.
InitLive ==
    /\ Init
    /\ scraper = "bs"
    /\ job_id # None
    /\ \A t \in Tasks : urls[t] \in {LinkHtml, LinkPdf}

SpecLive == InitLive /\ [][NextLive]_vars /\ Fairness

\* Task t has emitted its outcome.
Emitted(t) == pc[t] = "done" /\ contents[t] # Pending

\* C24: with limit >= 1 and fair scheduling, every task of the batch
\* leaves the wait for a slot, emits one outcome that is never replaced,
\* no slot stays held, and run() returns; run() does not return before
\* every task has emitted its outcome.
C24_EveryTaskEndsRunReturns ==
    /\ \A t \in 1..MaxUrls : (t \in Tasks) ~> (t \in Tasks /\ Emitted(t))
    /\ <>(run_state = "returned")
    /\ <>[](slots = 0)
    /\ [](run_state = "returned" => \A t \in Tasks : Emitted(t))
    /\ [][\A t \in Tasks : Emitted(t) => (contents'[t] = contents[t] /\ pc'[t] = pc[t])]_vars

C24_Witness ==
    /\ limit >= 1
    /\ Len(urls) > limit
    /\ run_state = "returned"
    /\ \A t \in Tasks : Emitted(t)
    /\ slots = 0


\* ------------------------------------------------------------------------
\* DatabaseManager(): __new__ and __init__ (db_utils.py 15-52)
\* ------------------------------------------------------------------------

\* DatabaseManager() calls in one history
MaxConstructions == 5

\* SUPABASE_URL and SUPABASE_SERVICE_ROLE_KEY at the time of a construction
Environments == {"set", "no_url", "no_key"}

\* create_client returns the client or raises
CreateClientResults == {"ok", "raises"}

Returned(object) == [kind |-> "instance", id |-> object]
Raised(e) == [kind |-> e, id |-> 0]

\* variant of init_needed: __init__ initializes on every construction
init_needed_always(initialized) == TRUE

\* `if not self._initialized`
init_needed(initialized) == ~initialized

\* `if not self.supabase_url or not self.supabase_key`
credentials_missing(env) == env \in {"no_url", "no_key"}

\* One DatabaseManager() call (as Scraper.__init__ makes for a job id,
\* scraper.py:47): __new__ hands out the one instance, allocating it the
\* first time; __init__ initializes it unless it is initialized already.
dbm_construct ==
    /\ Len(dbm_results) < MaxConstructions
    /\ \E env \in Environments, client \in CreateClientResults :
        LET allocate == dbm_instance = 0
            self == IF allocate THEN dbm_objects + 1 ELSE dbm_instance
        IN  /\ dbm_objects' = IF allocate THEN dbm_objects + 1 ELSE dbm_objects
            /\ dbm_instance' = self
            /\ IF ~init_needed(dbm_initialized)
               THEN /\ dbm_results' = Append(dbm_results, Returned(self))
                    /\ UNCHANGED <<dbm_initialized, dbm_clients, dbm_attempts>>
               ELSE IF credentials_missing(env)
               THEN /\ dbm_results' = Append(dbm_results, Raised("ValueError"))
                    /\ dbm_attempts' = dbm_attempts + 1
                    /\ UNCHANGED <<dbm_initialized, dbm_clients>>
               ELSE IF client = "raises"
               THEN /\ dbm_results' = Append(dbm_results, Raised("Exception"))
                    /\ dbm_attempts' = dbm_attempts + 1
                    /\ UNCHANGED <<dbm_initialized, dbm_clients>>
               ELSE /\ dbm_results' = Append(dbm_results, Returned(self))
                    /\ dbm_attempts' = dbm_attempts + 1
                    /\ dbm_clients' = dbm_clients + 1
                    /\ dbm_initialized' = TRUE

InitDbm ==
    /\ dbm_instance = 0
    /\ dbm_initialized = FALSE
    /\ dbm_objects = 0
    /\ dbm_clients = 0
    /\ dbm_attempts = 0
    /\ dbm_results = <<>>
    /\ orch_idle /\ api_idle /\ bee_idle /\ norm_idle /\ db_idle /\ red_idle

NextDbm ==
    dbm_construct /\ UNCHANGED <<orch_vars, api_vars, bee_vars, norm_vars, db_vars, red_vars>>

SpecDbm == InitDbm /\ [][NextDbm]_vars

\* The constructions that raised.
FailedConstructions == {k \in 1..Len(dbm_results) : dbm_results[k].kind # "instance"}

\* C25: every construction that returns gives the one instance; the client
\* is created at most once, and no construction after the successful one
\* initializes again; a construction whose initialization failed (missing
\* credentials, create_client raising) leaves the instance uninitialized,
\* and the construction after it attempts the initialization again.
C25_SingletonInitializedOnce ==
    /\ dbm_objects <= 1
    /\ dbm_clients <= 1
    /\ dbm_initialized <=> dbm_clients = 1
    /\ \A k \in 1..Len(dbm_results) :
        dbm_results[k].kind = "instance" => dbm_results[k].id = dbm_instance
    /\ \A k \in FailedConstructions : \A j \in 1..k : j \in FailedConstructions
    /\ dbm_attempts = Cardinality(FailedConstructions) + dbm_clients
    /\ (dbm_results # <<>> /\ ~dbm_initialized) =>
        /\ dbm_instance = 1
        /\ FailedConstructions = 1..Len(dbm_results)

C25_Witness ==
    /\ Len(dbm_results) = 4
    /\ dbm_results[1].kind = "ValueError"
    /\ dbm_results[2].kind = "Exception"
    /\ dbm_results[3] = Returned(1)
    /\ dbm_results[4] = Returned(1)
    /\ dbm_attempts = 3
    /\ dbm_clients = 1

====
